---- MODULE Spec2Model ----
(***************************************************************************)
(* The concurrent generation engine of the-one-prompt: the RateLimiter     *)
(* (admission controller) and the Engine (grid, full generation step,      *)
(* single-cell update, resize), as one state machine over the JavaScript   *)
(* event loop: a macrotask (UI event, timer, collaborator response) runs   *)
(* to completion, then the microtask queue is drained in FIFO order.       *)
(***************************************************************************)
EXTENDS Integers, Sequences, FiniteSets, Bags, TLC

(* ------------------------------ bounds -------------------------------- *)
\* largest maxConcurrent handed to the RateLimiter constructor
MaxConcurrentArg == 2
\* largest minIntervalMs handed to the RateLimiter constructor
MaxInterval == 1
\* number of independent acquire() callers in the limiter-only specification
MaxCallers == 3
\* largest grid dimension (constructor arguments and resize sizes)
MaxSize == 2
\* number of per-cell tasks (of full steps and single-cell updates) ever launched
MaxTasks == 3
\* the same number in the specification of full steps alone
MaxStepTasks == 4
\* largest grid dimension in the specification without resize
MaxWideSize == 3
\* number of resize calls that change the grid's dimensions
MaxResizes == 1
\* number of single-cell update requests that are accepted
MaxSingles == 2
\* number of per-cell tasks in the specification with a pure collaborator
MaxPureTasks == 5

VARIABLES
  now,        \* Date.now(), in ms
  lim,        \* the RateLimiter's fields
  timers,     \* bag of the due times of the pending setTimeout re-checks
  grantLog,   \* history: the clock value recorded at each grant, in order
  callers,    \* limiter-only specification: what each acquire() caller is doing
  cols,       \* Engine.cols
  rows,       \* Engine.rows
  grid,       \* Engine.grid: grid[y][x] is the text of cell (x, y)
  generationInProgress,   \* Engine.generationInProgress
  loadingCells,           \* Engine.loadingCells
  tasks,      \* the per-cell tasks launched so far, in launch order
  steps,      \* the nextGeneration calls made so far
  micro,      \* the microtask queue: promise continuations ready to run
  resizes,    \* number of resize calls that changed the dimensions
  isRunning,  \* the driver's guard against concurrent runGeneration calls
  stepBtn,    \* the step button
  mobileBtn,  \* the mobile step button
  autoInterval,   \* the driver's auto-run interval timer, or "null"
  runs        \* the runGeneration calls made so far

limiterVars == <<lim, timers, grantLog>>
engineVars == <<cols, rows, grid, generationInProgress, loadingCells,
                tasks, steps, micro, resizes>>
uiVars == <<isRunning, stepBtn, mobileBtn, autoInterval, runs>>
vars == <<now, lim, timers, grantLog, callers, cols, rows, grid,
          generationInProgress, loadingCells, tasks, steps, micro, resizes,
          isRunning, stepBtn, mobileBtn, autoInterval, runs>>

Max(a, b) == IF a >= b THEN a ELSE b
Min(a, b) == IF a <= b THEN a ELSE b

(* ---------------------------- RateLimiter ------------------------------ *)
\* faulty variant: the constructor stores its parameters as they are given
RateLimiterNewUnclamped(maxConcurrent, minIntervalMs) ==
  [ maxConcurrent |-> maxConcurrent,
    minInterval   |-> minIntervalMs,
    active        |-> 0,
    lastStart     |-> 0,
    queue         |-> <<>> ]

\* constructor: both parameters are clamped
RateLimiterNew(maxConcurrent, minIntervalMs) ==
  [ maxConcurrent |-> Max(1, maxConcurrent),
    minInterval   |-> Max(0, minIntervalMs),
    active        |-> 0,
    lastStart     |-> 0,
    queue         |-> <<>> ]

\* A synchronous run of limiter code works on a context c:
\*   c.lim      the limiter's fields
\*   c.timers   the pending setTimeout re-checks
\*   c.granted  the waiters whose promise this run resolved, in order
\*   c.log      the clock value recorded at each of these grants
Ctx(l, tm) == [lim |-> l, timers |-> tm, granted |-> <<>>, log |-> <<>>]

\* faulty variant: a grant that forgets to count the admitted operation
attemptNoCount(c, w, t) ==
  IF c.lim.active < c.lim.maxConcurrent /\ t - c.lim.lastStart >= c.lim.minInterval
  THEN [c EXCEPT !.lim.lastStart = t,
                 !.granted = Append(@, w),
                 !.log = Append(@, t)]
  ELSE [c EXCEPT !.lim.queue = Append(@, w)]

\* faulty variant: a grant that forgets to record its start time
attemptNoStamp(c, w, t) ==
  IF c.lim.active < c.lim.maxConcurrent /\ t - c.lim.lastStart >= c.lim.minInterval
  THEN [c EXCEPT !.lim.active = @ + 1,
                 !.granted = Append(@, w),
                 !.log = Append(@, t)]
  ELSE [c EXCEPT !.lim.queue = Append(@, w)]

\* the closure `attempt` of waiter w, run at clock value t
attempt(c, w, t) ==
  IF c.lim.active < c.lim.maxConcurrent /\ t - c.lim.lastStart >= c.lim.minInterval
  THEN [c EXCEPT !.lim.active = @ + 1,
                 !.lim.lastStart = t,
                 !.granted = Append(@, w),
                 !.log = Append(@, t)]
  ELSE [c EXCEPT !.lim.queue = Append(@, w)]

\* faulty variant: no re-check is scheduled while the interval has not elapsed
RECURSIVE processQueueNoTimer(_, _)
processQueueNoTimer(c, t) ==
  IF Len(c.lim.queue) = 0 THEN c
  ELSE IF c.lim.active >= c.lim.maxConcurrent THEN c
  ELSE LET wait == c.lim.minInterval - (t - c.lim.lastStart) IN
       IF wait > 0 THEN c
       ELSE LET nextAttempt == Head(c.lim.queue)
                c1 == attempt([c EXCEPT !.lim.queue = Tail(@)], nextAttempt, t)
            IN IF Len(c1.lim.queue) > 0 /\ c1.lim.active < c1.lim.maxConcurrent
               THEN processQueueNoTimer(c1, t)
               ELSE c1

\* faulty variant: nothing is admitted while any operation is active
RECURSIVE processQueueSerial(_, _)
processQueueSerial(c, t) ==
  IF Len(c.lim.queue) = 0 THEN c
  ELSE IF c.lim.active >= 1 THEN c
  ELSE LET wait == c.lim.minInterval - (t - c.lim.lastStart) IN
       IF wait > 0
       THEN [c EXCEPT !.timers = @ (+) SetToBag({t + wait})]
       ELSE LET nextAttempt == Head(c.lim.queue)
                c1 == attempt([c EXCEPT !.lim.queue = Tail(@)], nextAttempt, t)
            IN IF Len(c1.lim.queue) > 0 /\ c1.lim.active < c1.lim.maxConcurrent
               THEN processQueueSerial(c1, t)
               ELSE c1

\* faulty variant: the waiter that queued last is tried first
RECURSIVE processQueueLifo(_, _)
processQueueLifo(c, t) ==
  IF Len(c.lim.queue) = 0 THEN c
  ELSE IF c.lim.active >= c.lim.maxConcurrent THEN c
  ELSE LET wait == c.lim.minInterval - (t - c.lim.lastStart) IN
       IF wait > 0
       THEN [c EXCEPT !.timers = @ (+) SetToBag({t + wait})]
       ELSE LET nextAttempt == c.lim.queue[Len(c.lim.queue)]
                c1 == attempt([c EXCEPT !.lim.queue = SubSeq(@, 1, Len(@) - 1)],
                              nextAttempt, t)
            IN IF Len(c1.lim.queue) > 0 /\ c1.lim.active < c1.lim.maxConcurrent
               THEN processQueueLifo(c1, t)
               ELSE c1

RECURSIVE processQueue(_, _)
processQueue(c, t) ==
  IF Len(c.lim.queue) = 0 THEN c
  ELSE IF c.lim.active >= c.lim.maxConcurrent THEN c
  ELSE LET wait == c.lim.minInterval - (t - c.lim.lastStart) IN
       IF wait > 0
       THEN [c EXCEPT !.timers = @ (+) SetToBag({t + wait})]
       ELSE LET nextAttempt == Head(c.lim.queue)
                c1 == attempt([c EXCEPT !.lim.queue = Tail(@)], nextAttempt, t)
            IN IF Len(c1.lim.queue) > 0 /\ c1.lim.active < c1.lim.maxConcurrent
               THEN processQueue(c1, t)
               ELSE c1

\* faulty variant: a new waiter is put at the head of the queue
acquireUnshift(c, w, t) == processQueue([c EXCEPT !.lim.queue = <<w>> \o @], t)

\* acquire() called by waiter w: the promise executor runs synchronously
acquire(c, w, t) == processQueue([c EXCEPT !.lim.queue = Append(@, w)], t)

\* faulty variant: release() decrements without looking at the count
releaseUnguarded(c, t) ==
  processQueue([c EXCEPT !.lim.active = @ - 1], t)

\* faulty variant: release() restarts the interval, as if it were measured
\* from the last release of capacity
releaseForgetsStart(c, t) ==
  processQueue([c EXCEPT !.lim.active = IF @ > 0 THEN @ - 1 ELSE @,
                         !.lim.lastStart = 0], t)

\* release()
release(c, t) ==
  processQueue([c EXCEPT !.lim.active = IF @ > 0 THEN @ - 1 ELSE @], t)


(* ------------------------------ Engine --------------------------------- *)
\* texts the external collaborator may return, and the message of its failure
Results == {"a"}
KernelError == "err"
\* message of the TypeError thrown by reading a property of undefined
TypeErrorMsg == "TypeError"
\* the value of an array element that does not exist
Undefined == "undefined"

createGrid(c, r) == [y \in 0..(r - 1) |-> [x \in 0..(c - 1) |-> ""]]

cellKey(x, y) == <<x, y>>

\* a deep copy: a new array of new rows of new cells with the same texts
snapshot(g) == [y \in DOMAIN g |-> [x \in DOMAIN g[y] |-> g[y][x]]]

\* the wrap-around neighbor indices, on r rows and c columns
upY(cy, r) == (cy - 1 + r) % r
downY(cy, r) == (cy + 1) % r
\* faulty variant: the west neighbor is clamped at the edge instead of wrapping
leftXClamped(cx, c) == IF cx = 0 THEN 0 ELSE cx - 1

leftX(cx, c) == (cx - 1 + c) % c
rightX(cx, c) == (cx + 1) % c
Neighbors(cx, cy, c, r) ==
  [upY |-> upY(cy, r), downY |-> downY(cy, r),
   leftX |-> leftX(cx, c), rightX |-> rightX(cx, c)]

(* ------------------------------- Init ---------------------------------- *)
\* Date.now() is far beyond any minIntervalMs while lastStart starts at 0:
\* the clock starts at the least value with now - lastStart >= minInterval.
InitOf(maxDim) ==
  /\ now = MaxInterval
  /\ \E mc \in -1..MaxConcurrentArg, mi \in -1..MaxInterval :
        lim = RateLimiterNew(mc, mi)
  /\ timers = EmptyBag
  /\ grantLog = <<>>
  /\ callers = [c \in 1..MaxCallers |-> "idle"]
  /\ \E c \in 1..maxDim, r \in 1..maxDim :
        /\ cols = c
        /\ rows = r
        /\ grid = createGrid(c, r)
  /\ generationInProgress = FALSE
  /\ loadingCells = {}
  /\ tasks = <<>>
  /\ steps = <<>>
  /\ micro = <<>>
  /\ resizes = 0
  /\ isRunning = FALSE
  /\ stepBtn = [disabled |-> FALSE]
  /\ mobileBtn = [disabled |-> FALSE]
  /\ autoInterval = "null"
  /\ runs = <<>>

Init == InitOf(MaxSize)

(* ------------------------- clock and timers ---------------------------- *)
\* The clock advances by one ms.  The limiter reads the clock only through
\* now - lastStart >= minInterval and every timer is due by
\* lastStart + minInterval, so later clock values are not told apart.
Tick ==
  /\ now - lim.lastStart < lim.minInterval
  /\ micro = <<>>
  /\ now' = now + 1
  /\ UNCHANGED <<lim, timers, grantLog, callers, uiVars, engineVars>>

Granted(c) == {c.granted[i] : i \in 1..Len(c.granted)}


(* --------------------------- Engine actions ---------------------------- *)
Coords(c, r) == {<<x, y>> : x \in 0..(c - 1), y \in 0..(r - 1)}

\* faulty variant: a shuffle that copies instead of swapping, so that an
\* element may come twice and another not at all
ShufflesCopying(S) == [1..Cardinality(S) -> S]

\* the outcomes of the Fisher-Yates shuffle of a collection: all its orders
RECURSIVE Shuffles(_)
Shuffles(S) ==
  IF S = {} THEN {<<>>}
  ELSE UNION {{<<e>> \o p : p \in Shuffles(S \ {e})} : e \in S}

Task(kind, step, cx, cy, snap, nb) ==
  [kind |-> kind, step |-> step, cx |-> cx, cy |-> cy, pc |-> "acquire",
   snap |-> snap, nb |-> nb, args |-> <<>>, out |-> ""]

NoNeighbors == [upY |-> -1, downY |-> -1, leftX |-> -1, rightX |-> -1]

\* the promises resolved by a run of limiter code: each waiter's continuation
\* becomes a microtask, in the order of the grants
Resumes(c) == [i \in 1..Len(c.granted) |-> [type |-> "resume", id |-> c.granted[i]]]
MarkGranted(T, c) ==
  [i \in DOMAIN T |-> IF i \in Granted(c) THEN [T[i] EXCEPT !.pc = "granted"] ELSE T[i]]

\* the limiter's part of an engine handler that ran limiter code to context c,
\* with T the tasks and M the microtask queue as the handler leaves them
LimiterRan(c, T, M) ==
  /\ lim' = c.lim
  /\ timers' = c.timers
  /\ grantLog' = grantLog \o c.log
  /\ tasks' = MarkGranted(T, c)
  /\ micro' = M \o Resumes(c)

\* Engine.helper: sketch.setup calls initHelperFromStorage() right after the
\* constructor and setApiKey() only replaces one OpenAIHelper by another, so
\* the helper is never null once the program runs
helper == TRUE

\* faulty variant: one extent min(old, new) is used for both axes of the copy
resizedGridSquare(newSize) ==
  [y \in 0..(newSize - 1) |-> [x \in 0..(newSize - 1) |->
     IF y < Min(Min(rows, cols), newSize) /\ x < Min(Min(rows, cols), newSize)
     THEN grid[y][x] ELSE ""]]

\* faulty variant: only the number of rows follows the new size
resizedGridRowsOnly(newSize) ==
  [y \in 0..(newSize - 1) |-> [x \in 0..(cols - 1) |->
     IF y < rows THEN grid[y][x] ELSE ""]]

\* resize(newSize)
resizedGrid(newSize) ==
  [y \in 0..(newSize - 1) |-> [x \in 0..(newSize - 1) |->
     IF y < Min(rows, newSize) /\ x < Min(cols, newSize) THEN grid[y][x] ELSE ""]]

resize(newSize) ==
  /\ micro = <<>>
  /\ ~(newSize = cols /\ newSize = rows)
  /\ resizes < MaxResizes
  /\ resizes' = resizes + 1
  /\ grid' = resizedGrid(newSize)
  /\ cols' = newSize
  /\ rows' = newSize
  /\ UNCHANGED <<now, limiterVars, callers, uiVars, generationInProgress,
                 loadingCells, tasks, steps, micro>>

\* faulty variant: the tasks call acquire() in the reverse of the shuffled order
RECURSIVE LaunchAllBackwards(_, _, _)
LaunchAllBackwards(c, ids, t) ==
  IF ids = <<>> THEN c
  ELSE LaunchAllBackwards(acquire(c, ids[Len(ids)], t),
                          SubSeq(ids, 1, Len(ids) - 1), t)

\* the tasks of nextGeneration call acquire() one after the other, in the
\* shuffled order: ids[i] is the task launched i-th
RECURSIVE LaunchAll(_, _, _)
LaunchAll(c, ids, t) ==
  IF ids = <<>> THEN c
  ELSE LaunchAll(acquire(c, Head(ids), t), Tail(ids), t)

\* nextGeneration(prompt), up to its await Promise.all(tasks); it is called
\* only while the tasks it launches fit the bound on the number of tasks
nextGeneration(bound) ==
  /\ micro = <<>>
  /\ Len(tasks) + rows * cols <= bound
  /\ \E coords \in Shuffles(Coords(cols, rows)) :
       LET s == Len(steps) + 1
           snap == snapshot(grid)
           n == Len(coords)
           first == Len(tasks)
           new == [i \in 1..n |->
                     Task("step", s, coords[i][1], coords[i][2], snap, NoNeighbors)]
           c == LaunchAll(Ctx(lim, timers), [i \in 1..n |-> first + i], now)
       IN /\ generationInProgress' = TRUE
          /\ steps' = Append(steps, [status |-> "running", settled |-> FALSE,
                                     first |-> first + 1, last |-> first + n,
                                     start |-> grid])
          /\ LimiterRan(c, tasks \o new, micro)
  /\ UNCHANGED <<now, callers, cols, rows, grid, loadingCells, resizes>>

\* faulty variant: a request is accepted while a generation step is in progress
SingleAcceptedDuringStep(cx, cy) ==
  /\ helper
  /\ ~(cy < 0 \/ cy >= rows \/ cx < 0 \/ cx >= cols)
  /\ cellKey(cx, cy) \notin loadingCells

\* the guards of updateSingleCell: the request is not rejected
SingleAccepted(cx, cy) ==
  /\ ~generationInProgress
  /\ helper
  /\ ~(cy < 0 \/ cy >= rows \/ cx < 0 \/ cx >= cols)
  /\ cellKey(cx, cy) \notin loadingCells

\* faulty variant: an accepted single-cell update sets the step-in-progress flag
updateSingleCellAsStep(cx, cy) ==
  /\ micro = <<>>
  /\ Len(tasks) < MaxTasks
  /\ Cardinality({i \in DOMAIN tasks : tasks[i].kind = "single"}) < MaxSingles
  /\ IF SingleAccepted(cx, cy)
     THEN LET id == Len(tasks) + 1
              new == Task("single", 0, cx, cy, snapshot(grid),
                          Neighbors(cx, cy, cols, rows))
              c == acquire(Ctx(lim, timers), id, now)
          IN LimiterRan(c, Append(tasks, new), micro)
     ELSE UNCHANGED <<limiterVars, tasks, micro>>
  /\ generationInProgress' = (generationInProgress \/ SingleAccepted(cx, cy))
  /\ UNCHANGED <<now, callers, uiVars, cols, rows, grid, loadingCells, steps, resizes>>

\* updateSingleCell(cx, cy), up to its await this.limiter.acquire(); a rejected
\* request returns without any effect
updateSingleCell(cx, cy) ==
  /\ micro = <<>>
  /\ Len(tasks) < MaxTasks
  /\ Cardinality({i \in DOMAIN tasks : tasks[i].kind = "single"}) < MaxSingles
  /\ IF SingleAccepted(cx, cy)
     THEN LET id == Len(tasks) + 1
              new == Task("single", 0, cx, cy, snapshot(grid),
                          Neighbors(cx, cy, cols, rows))
              c == acquire(Ctx(lim, timers), id, now)
          IN LimiterRan(c, Append(tasks, new), micro)
     ELSE UNCHANGED <<limiterVars, tasks, micro>>
  /\ UNCHANGED <<now, callers, uiVars, cols, rows, grid, generationInProgress,
                 loadingCells, steps, resizes>>

\* what the task's snapshot holds at row y, column x
\* (the row exists; a missing element reads as undefined)
CellAt(snap, y, x) == IF x \in DOMAIN snap[y] THEN snap[y][x] ELSE Undefined

\* faulty variant: the neighbors are read from the live grid, not from the snapshot
KernelArgsLive(k, nb) ==
  [top     |-> CellAt(grid, nb.upY, k.cx),
   bottom  |-> CellAt(grid, nb.downY, k.cx),
   left    |-> CellAt(grid, k.cy, nb.leftX),
   right   |-> CellAt(grid, k.cy, nb.rightX),
   current |-> CellAt(grid, k.cy, k.cx),
   helper  |-> helper]

\* the arguments of the kernel call of task k with neighbor indices nb:
\* top, bottom, left, right, current
KernelArgs(k, nb) ==
  [top     |-> CellAt(k.snap, nb.upY, k.cx),
   bottom  |-> CellAt(k.snap, nb.downY, k.cx),
   left    |-> CellAt(k.snap, k.cy, nb.leftX),
   right   |-> CellAt(k.snap, k.cy, nb.rightX),
   current |-> CellAt(k.snap, k.cy, k.cx),
   helper  |-> helper]

\* reading snapshot[y][..] throws a TypeError when row y does not exist
ReadThrows(k, nb) ==
  \/ nb.upY \notin DOMAIN k.snap
  \/ nb.downY \notin DOMAIN k.snap
  \/ k.cy \notin DOMAIN k.snap

\* this.grid[cy][cx].text = v throws a TypeError when the cell does not exist
WriteThrows(cx, cy) == ~(cy \in 0..(rows - 1) /\ cx \in 0..(cols - 1))

\* where a task that has not ended can be: waiting in acquire(), granted
\* with its continuation not yet run, or waiting for the collaborator
Unresolved == {"acquire", "granted", "kernel"}

\* a task that has ended: its snapshot is garbage, its outcome is kept
Settled(k, pc, v) ==
  [k EXCEPT !.pc = pc, !.snap = <<>>, !.nb = NoNeighbors, !.args = <<>>, !.out = v]

\* faulty variant: a failure of the collaborator is not caught by the task
FinishUncaught(t, v, T, M) ==
  LET k == T[t]
      thrown == WriteThrows(k.cx, k.cy) \/ v = KernelError
      T1 == [T EXCEPT ![t] = Settled(k, IF thrown THEN "rejected" ELSE "done", v)]
      c == release(Ctx(lim, timers), now)
      T2 == MarkGranted(T1, c)
      s == k.step
      all == k.kind = "step" /\ ~steps[s].settled
             /\ \A i \in steps[s].first..steps[s].last : T1[i].pc = "done"
      fail == k.kind = "step" /\ ~steps[s].settled /\ thrown
      join == IF fail THEN <<[type |-> "joinRejected", id |-> s]>>
              ELSE IF all THEN <<[type |-> "join", id |-> s]>>
              ELSE <<>>
  IN /\ grid' = IF thrown THEN grid
                ELSE [grid EXCEPT ![k.cy][k.cx] = v]
     /\ loadingCells' = loadingCells \ {cellKey(k.cx, k.cy)}
     /\ lim' = c.lim
     /\ timers' = c.timers
     /\ grantLog' = grantLog \o c.log
     /\ tasks' = T2
     /\ micro' = M \o Resumes(c) \o join
     /\ steps' = IF fail \/ all
                 THEN [steps EXCEPT ![s].settled = TRUE, ![s].start = <<>>]
                 ELSE steps

\* faulty variant: a write that throws in the catch block skips the finally block
FinishNoFinally(t, v, T, M) ==
  LET k == T[t]
      thrown == WriteThrows(k.cx, k.cy)
      T1 == [T EXCEPT ![t] = Settled(k, IF thrown THEN "rejected" ELSE "done", v)]
      c == IF thrown THEN Ctx(lim, timers) ELSE release(Ctx(lim, timers), now)
      T2 == MarkGranted(T1, c)
      s == k.step
      all == k.kind = "step" /\ ~steps[s].settled
             /\ \A i \in steps[s].first..steps[s].last : T1[i].pc = "done"
      fail == k.kind = "step" /\ ~steps[s].settled /\ thrown
      join == IF fail THEN <<[type |-> "joinRejected", id |-> s]>>
              ELSE IF all THEN <<[type |-> "join", id |-> s]>>
              ELSE <<>>
  IN /\ grid' = IF thrown THEN grid
                ELSE [grid EXCEPT ![k.cy][k.cx] = v]
     /\ loadingCells' = IF thrown THEN loadingCells
                        ELSE loadingCells \ {cellKey(k.cx, k.cy)}
     /\ lim' = c.lim
     /\ timers' = c.timers
     /\ grantLog' = grantLog \o c.log
     /\ tasks' = T2
     /\ micro' = M \o Resumes(c) \o join
     /\ steps' = IF fail \/ all
                 THEN [steps EXCEPT ![s].settled = TRUE, ![s].start = <<>>]
                 ELSE steps

\* faulty variant: a failed call leaves the cell's previous text in place
FinishKeepsText(t, v, T, M) ==
  LET k == T[t]
      thrown == WriteThrows(k.cx, k.cy)
      T1 == [T EXCEPT ![t] = Settled(k, IF thrown THEN "rejected" ELSE "done", v)]
      c == release(Ctx(lim, timers), now)
      T2 == MarkGranted(T1, c)
      s == k.step
      all == k.kind = "step" /\ ~steps[s].settled
             /\ \A i \in steps[s].first..steps[s].last : T1[i].pc = "done"
      fail == k.kind = "step" /\ ~steps[s].settled /\ thrown
      join == IF fail THEN <<[type |-> "joinRejected", id |-> s]>>
              ELSE IF all THEN <<[type |-> "join", id |-> s]>>
              ELSE <<>>
  IN /\ grid' = IF thrown \/ v = KernelError THEN grid
                ELSE [grid EXCEPT ![k.cy][k.cx] = v]
     /\ loadingCells' = loadingCells \ {cellKey(k.cx, k.cy)}
     /\ lim' = c.lim
     /\ timers' = c.timers
     /\ grantLog' = grantLog \o c.log
     /\ tasks' = T2
     /\ micro' = M \o Resumes(c) \o join
     /\ steps' = IF fail \/ all
                 THEN [steps EXCEPT ![s].settled = TRUE, ![s].start = <<>>]
                 ELSE steps

\* faulty variant: the snapshots share their cell objects with the live grid, so
\* a write to a live cell shows in every snapshot that holds the cell
FinishThroughSnapshot(t, v, T, M) ==
  LET k == T[t]
      thrown == WriteThrows(k.cx, k.cy)
      T0 == [i \in DOMAIN T |->
               IF ~thrown /\ k.cy \in DOMAIN T[i].snap /\ k.cx \in DOMAIN T[i].snap[k.cy]
               THEN [T[i] EXCEPT !.snap[k.cy][k.cx] = v] ELSE T[i]]
      T1 == [T0 EXCEPT ![t] = Settled(k, IF thrown THEN "rejected" ELSE "done", v)]
      c == release(Ctx(lim, timers), now)
      T2 == MarkGranted(T1, c)
      s == k.step
      all == k.kind = "step" /\ ~steps[s].settled
             /\ \A i \in steps[s].first..steps[s].last : T1[i].pc = "done"
      fail == k.kind = "step" /\ ~steps[s].settled /\ thrown
      join == IF fail THEN <<[type |-> "joinRejected", id |-> s]>>
              ELSE IF all THEN <<[type |-> "join", id |-> s]>>
              ELSE <<>>
  IN /\ grid' = IF thrown THEN grid
                ELSE [grid EXCEPT ![k.cy][k.cx] = v]
     /\ loadingCells' = loadingCells \ {cellKey(k.cx, k.cy)}
     /\ lim' = c.lim
     /\ timers' = c.timers
     /\ grantLog' = grantLog \o c.log
     /\ tasks' = T2
     /\ micro' = M \o Resumes(c) \o join
     /\ steps' = IF fail \/ all
                 THEN [steps EXCEPT ![s].settled = TRUE, ![s].start = <<>>]
                 ELSE steps

\* faulty variant: a returned text is not written to the live grid by the task
FinishHoldsResult(t, v, T, M) ==
  LET k == T[t]
      thrown == WriteThrows(k.cx, k.cy)
      T1 == [T EXCEPT ![t] = Settled(k, IF thrown THEN "rejected" ELSE "done", v)]
      c == release(Ctx(lim, timers), now)
      T2 == MarkGranted(T1, c)
      s == k.step
      all == k.kind = "step" /\ ~steps[s].settled
             /\ \A i \in steps[s].first..steps[s].last : T1[i].pc = "done"
      fail == k.kind = "step" /\ ~steps[s].settled /\ thrown
      join == IF fail THEN <<[type |-> "joinRejected", id |-> s]>>
              ELSE IF all THEN <<[type |-> "join", id |-> s]>>
              ELSE <<>>
  IN /\ grid' = IF thrown \/ v \in Results THEN grid
                ELSE [grid EXCEPT ![k.cy][k.cx] = v]
     /\ loadingCells' = loadingCells \ {cellKey(k.cx, k.cy)}
     /\ lim' = c.lim
     /\ timers' = c.timers
     /\ grantLog' = grantLog \o c.log
     /\ tasks' = T2
     /\ micro' = M \o Resumes(c) \o join
     /\ steps' = IF fail \/ all
                 THEN [steps EXCEPT ![s].settled = TRUE, ![s].start = <<>>]
                 ELSE steps

\* faulty variant: the task's write fills the whole row of its cell
FinishWritesRow(t, v, T, M) ==
  LET k == T[t]
      thrown == WriteThrows(k.cx, k.cy)
      T1 == [T EXCEPT ![t] = Settled(k, IF thrown THEN "rejected" ELSE "done", v)]
      c == release(Ctx(lim, timers), now)
      T2 == MarkGranted(T1, c)
      s == k.step
      all == k.kind = "step" /\ ~steps[s].settled
             /\ \A i \in steps[s].first..steps[s].last : T1[i].pc = "done"
      fail == k.kind = "step" /\ ~steps[s].settled /\ thrown
      join == IF fail THEN <<[type |-> "joinRejected", id |-> s]>>
              ELSE IF all THEN <<[type |-> "join", id |-> s]>>
              ELSE <<>>
  IN /\ grid' = IF thrown THEN grid
                ELSE [grid EXCEPT ![k.cy] = [x \in DOMAIN @ |-> v]]
     /\ loadingCells' = loadingCells \ {cellKey(k.cx, k.cy)}
     /\ lim' = c.lim
     /\ timers' = c.timers
     /\ grantLog' = grantLog \o c.log
     /\ tasks' = T2
     /\ micro' = M \o Resumes(c) \o join
     /\ steps' = IF fail \/ all
                 THEN [steps EXCEPT ![s].settled = TRUE, ![s].start = <<>>]
                 ELSE steps


\* faulty variant: the finally block leaves the in-flight mark in place
FinishKeepsMark(t, v, T, M) ==
  LET k == T[t]
      thrown == WriteThrows(k.cx, k.cy)
      T1 == [T EXCEPT ![t] = Settled(k, IF thrown THEN "rejected" ELSE "done", v)]
      c == release(Ctx(lim, timers), now)
      T2 == MarkGranted(T1, c)
      s == k.step
      all == k.kind = "step" /\ ~steps[s].settled
             /\ \A i \in steps[s].first..steps[s].last : T1[i].pc = "done"
      fail == k.kind = "step" /\ ~steps[s].settled /\ thrown
      join == IF fail THEN <<[type |-> "joinRejected", id |-> s]>>
              ELSE IF all THEN <<[type |-> "join", id |-> s]>>
              ELSE <<>>
  IN /\ grid' = IF thrown THEN grid
                ELSE [grid EXCEPT ![k.cy][k.cx] = v]
     /\ loadingCells' = loadingCells
     /\ lim' = c.lim
     /\ timers' = c.timers
     /\ grantLog' = grantLog \o c.log
     /\ tasks' = T2
     /\ micro' = M \o Resumes(c) \o join
     /\ steps' = IF fail \/ all
                 THEN [steps EXCEPT ![s].settled = TRUE, ![s].start = <<>>]
                 ELSE steps


\* The end of a per-cell task t whose try block ended with text v to write (the
\* collaborator's result, or the message of what was thrown): the write, or
\* the catch block's write if the first one threw, then the finally block.
\* A write that throws in the catch block leaves the task's promise rejected.
\* T is the tasks with t's own fields as this handler leaves them and M the
\* microtask queue.
Finish(t, v, T, M) ==
  LET k == T[t]
      thrown == WriteThrows(k.cx, k.cy)
      T1 == [T EXCEPT ![t] = Settled(k, IF thrown THEN "rejected" ELSE "done", v)]
      c == release(Ctx(lim, timers), now)
      T2 == MarkGranted(T1, c)
      s == k.step
      all == k.kind = "step" /\ ~steps[s].settled
             /\ \A i \in steps[s].first..steps[s].last : T1[i].pc = "done"
      fail == k.kind = "step" /\ ~steps[s].settled /\ thrown
      join == IF fail THEN <<[type |-> "joinRejected", id |-> s]>>
              ELSE IF all THEN <<[type |-> "join", id |-> s]>>
              ELSE <<>>
  IN /\ grid' = IF thrown THEN grid
                ELSE [grid EXCEPT ![k.cy][k.cx] = v]
     /\ loadingCells' = loadingCells \ {cellKey(k.cx, k.cy)}
     /\ lim' = c.lim
     /\ timers' = c.timers
     /\ grantLog' = grantLog \o c.log
     /\ tasks' = T2
     /\ micro' = M \o Resumes(c) \o join
     /\ steps' = IF fail \/ all
                 THEN [steps EXCEPT ![s].settled = TRUE, ![s].start = <<>>]
                 ELSE steps

\* faulty variant: a single-cell update reads the texts it passes when it is
\* admitted, not when it was requested
ResumeSnapshotsLate(t) ==
  LET k0 == tasks[t]
      k == IF k0.kind = "single" THEN [k0 EXCEPT !.snap = snapshot(grid)] ELSE k0
      nb == IF k.kind = "step" THEN Neighbors(k.cx, k.cy, cols, rows) ELSE k.nb
      M == Tail(micro)
  IN IF ReadThrows(k, nb)
     THEN /\ Finish(t, TypeErrorMsg, [tasks EXCEPT ![t].nb = nb], M)
          /\ UNCHANGED <<now, callers, uiVars, cols, rows, generationInProgress, resizes>>
     ELSE /\ loadingCells' = loadingCells \cup {cellKey(k.cx, k.cy)}
          /\ tasks' = [tasks EXCEPT ![t].pc = "kernel", ![t].nb = nb,
                                    ![t].args = KernelArgs(k, nb)]
          /\ micro' = M
          /\ UNCHANGED <<now, limiterVars, callers, uiVars, cols, rows, grid,
                         generationInProgress, steps, resizes>>

\* the continuation of a granted task after await this.limiter.acquire():
\* mark the cell, resolve the neighbors, call the kernel
Resume(t) ==
  LET k == tasks[t]
      nb == IF k.kind = "step" THEN Neighbors(k.cx, k.cy, cols, rows) ELSE k.nb
      M == Tail(micro)
  IN IF ReadThrows(k, nb)
     THEN \* thrown inside try before the kernel is called: catch, then finally
          /\ Finish(t, TypeErrorMsg, [tasks EXCEPT ![t].nb = nb], M)
          /\ UNCHANGED <<now, callers, uiVars, cols, rows, generationInProgress, resizes>>
     ELSE /\ loadingCells' = loadingCells \cup {cellKey(k.cx, k.cy)}
          /\ tasks' = [tasks EXCEPT ![t].pc = "kernel", ![t].nb = nb,
                                    ![t].args = KernelArgs(k, nb)]
          /\ micro' = M
          /\ UNCHANGED <<now, limiterVars, callers, uiVars, cols, rows, grid,
                         generationInProgress, steps, resizes>>

\* the continuation of nextGeneration after await Promise.all(tasks)
Join(s) ==
  /\ generationInProgress' = FALSE
  /\ steps' = [steps EXCEPT ![s].status = "done"]
  /\ micro' = Tail(micro)
  /\ UNCHANGED <<now, limiterVars, callers, uiVars, cols, rows, grid,
                 loadingCells, tasks, resizes>>

\* Promise.all(tasks) rejected: nextGeneration's promise rejects at the await
JoinRejected(s) ==
  /\ steps' = [steps EXCEPT ![s].status = "rejected"]
  /\ micro' = Tail(micro)
  /\ UNCHANGED <<now, limiterVars, callers, uiVars, cols, rows, grid,
                 generationInProgress, loadingCells, tasks, resizes>>

\* the next microtask runs
Microtask ==
  /\ micro # <<>>
  /\ LET m == Head(micro) IN
       \/ m.type = "resume" /\ Resume(m.id)
       \/ m.type = "join" /\ Join(m.id)
       \/ m.type = "joinRejected" /\ JoinRejected(m.id)

\* the kernel call of task t settles: with a text, or with a failure
KernelSettles(t) ==
  /\ micro = <<>>
  /\ tasks[t].pc = "kernel"
  /\ \E v \in (IF tasks[t].args.helper THEN Results ELSE {}) \cup {KernelError} :
       Finish(t, v, tasks, micro)
  /\ UNCHANGED <<now, callers, uiVars, cols, rows, generationInProgress, resizes>>

\* a setTimeout(() => this.processQueue(), wait) callback of the engine's limiter
RecheckTimer ==
  /\ micro = <<>>
  /\ \E due \in BagToSet(timers) :
       /\ due <= now
       /\ LimiterRan(processQueue(Ctx(lim, timers (-) SetToBag({due})), now),
                     tasks, micro)
  /\ UNCHANGED <<now, callers, uiVars, cols, rows, grid, generationInProgress,
                 loadingCells, steps, resizes>>

Next ==
  \/ \E newSize \in 1..MaxSize : resize(newSize)
  \/ nextGeneration(MaxTasks) /\ UNCHANGED uiVars
  \/ \E cx \in -1..MaxSize, cy \in -1..MaxSize : updateSingleCell(cx, cy)
  \/ Microtask
  \/ \E t \in DOMAIN tasks : KernelSettles(t)
  \/ RecheckTimer
  \/ Tick

Spec == Init /\ [][Next]_vars

\* full generation steps alone: no resize and no single-cell update
NextStep ==
  \/ nextGeneration(MaxStepTasks) /\ UNCHANGED uiVars
  \/ Microtask
  \/ \E t \in DOMAIN tasks : KernelSettles(t)
  \/ RecheckTimer
  \/ Tick

SpecStep == Init /\ [][NextStep]_vars

\* full steps and single-cell updates on grids of up to MaxWideSize, no resize
NextWide ==
  \/ nextGeneration(MaxTasks) /\ UNCHANGED uiVars
  \/ \E cx \in 0..(MaxWideSize - 1), cy \in 0..(MaxWideSize - 1) :
       updateSingleCell(cx, cy)
  \/ Microtask
  \/ \E t \in DOMAIN tasks : KernelSettles(t)
  \/ RecheckTimer
  \/ Tick

SpecWide == InitOf(MaxWideSize) /\ [][NextWide]_vars

\* Full steps in which the kernel call of one task, the first one launched,
\* may never settle: microtasks run, timers fire, the clock advances and the
\* kernel call of every other task eventually settles.
HungTask == 1

NextHang ==
  \/ nextGeneration(MaxTasks) /\ UNCHANGED uiVars
  \/ Microtask
  \/ \E t \in DOMAIN tasks : KernelSettles(t)
  \/ RecheckTimer
  \/ Tick

SpecHang ==
  /\ Init /\ [][NextHang]_vars
  /\ WF_vars(Microtask)
  /\ WF_vars(RecheckTimer)
  /\ WF_vars(Tick)
  /\ \A t \in (1..MaxTasks) \ {HungTask} :
       WF_vars(t \in DOMAIN tasks /\ KernelSettles(t))

\* A collaborator whose outcome depends only on the texts it is passed: it
\* fails for a cell that has a text, and returns "b" for an empty cell with a
\* text to its west and "a" for any other empty cell.
pureKernel(a) ==
  IF a.current # "" THEN KernelError
  ELSE IF a.left # "" THEN "b"
  ELSE "a"

\* the call of task t to that collaborator settles
PureKernelSettles(t) ==
  /\ micro = <<>>
  /\ tasks[t].pc = "kernel"
  /\ Finish(t, pureKernel(tasks[t].args), tasks, micro)
  /\ UNCHANGED <<now, callers, uiVars, cols, rows, generationInProgress, resizes>>

\* no operation of the engine is under way
Idle == \A t \in DOMAIN tasks : tasks[t].pc \notin Unresolved

\* Operations one at a time with the pure collaborator and no resize:
\* single-cell updates fill some cells, full steps run alone.
NextPure ==
  \/ Idle /\ nextGeneration(MaxPureTasks) /\ UNCHANGED uiVars
  \/ Idle /\ \E cx \in 0..(MaxSize - 1), cy \in 0..(MaxSize - 1) : updateSingleCell(cx, cy)
  \/ Microtask
  \/ \E t \in DOMAIN tasks : PureKernelSettles(t)
  \/ RecheckTimer
  \/ Tick

SpecPure == Init /\ [][NextPure]_vars

(* ------------------------------ drivers -------------------------------- *)
\* a runGeneration call that has reached its await engine.nextGeneration(...):
\* what triggered it, the engine step it started, whether it was given the
\* step button
Run(src, step, btn) == [src |-> src, step |-> step, btn |-> btn, pc |-> "awaiting"]

\* No runGeneration call is ready to continue.  The continuation of its await
\* runs in the microtask drain in which nextGeneration's promise settled, so
\* before any other event is handled.
NoRunReady ==
  \A r \in DOMAIN runs :
    runs[r].pc = "awaiting" => steps[runs[r].step].status = "running"

\* The driver with the isRunning guard.
\* runGeneration(promptInput, stepBtn), up to its await; a call that meets one
\* of the guards returns without any effect
runGeneration(src) ==
  /\ NoRunReady
  /\ ~isRunning
  /\ ~(stepBtn.disabled \/ mobileBtn.disabled)
  /\ isRunning' = TRUE
  /\ stepBtn' = [stepBtn EXCEPT !.disabled = TRUE]
  /\ mobileBtn' = [mobileBtn EXCEPT !.disabled = TRUE]
  /\ nextGeneration(MaxTasks)
  /\ runs' = Append(runs, Run(src, Len(steps) + 1, TRUE))
  /\ UNCHANGED autoInterval

\* the click handlers of the two buttons (a disabled button gets no click)
\* and the keydown handler of Ctrl+Enter
StepClick == ~stepBtn.disabled /\ ~isRunning /\ runGeneration("stepBtn")
MobileClick == ~mobileBtn.disabled /\ ~isRunning /\ runGeneration("mobileStepBtn")
CtrlEnter == ~isRunning /\ runGeneration("keydown")

\* faulty variant: the buttons and the guard are reset only after a step that
\* completed, not in a finally block
runGenerationResumesNoFinally(r) ==
  /\ runs[r].pc = "awaiting"
  /\ steps[runs[r].step].status # "running"
  /\ IF steps[runs[r].step].status = "done"
     THEN /\ stepBtn' = [stepBtn EXCEPT !.disabled = FALSE]
          /\ mobileBtn' = [mobileBtn EXCEPT !.disabled = FALSE]
          /\ isRunning' = FALSE
     ELSE UNCHANGED <<stepBtn, mobileBtn, isRunning>>
  /\ runs' = [runs EXCEPT ![r].pc = IF steps[runs[r].step].status = "done"
                                    THEN "ended" ELSE "failed"]
  /\ UNCHANGED <<now, limiterVars, callers, engineVars, autoInterval>>

\* runGeneration after its await: the rest of the try block if the step
\* completed, and the finally block in any case
runGenerationResumes(r) ==
  /\ runs[r].pc = "awaiting"
  /\ steps[runs[r].step].status # "running"
  /\ stepBtn' = [stepBtn EXCEPT !.disabled = FALSE]
  /\ mobileBtn' = [mobileBtn EXCEPT !.disabled = FALSE]
  /\ isRunning' = FALSE
  /\ runs' = [runs EXCEPT ![r].pc = IF steps[runs[r].step].status = "done"
                                    THEN "ended" ELSE "failed"]
  /\ UNCHANGED <<now, limiterVars, callers, engineVars, autoInterval>>

NextGuarded ==
  \/ StepClick
  \/ MobileClick
  \/ CtrlEnter
  \/ \E r \in DOMAIN runs : runGenerationResumes(r)
  \/ NoRunReady /\ \E newSize \in 1..MaxSize : resize(newSize)
  \/ NoRunReady /\ \E cx \in 0..(MaxSize - 1), cy \in 0..(MaxSize - 1) :
                      updateSingleCell(cx, cy)
  \/ Microtask
  \/ NoRunReady /\ \E t \in DOMAIN tasks : KernelSettles(t)
  \/ NoRunReady /\ RecheckTimer
  \/ NoRunReady /\ Tick

SpecGuarded == Init /\ [][NextGuarded]_vars

\* The driver with auto-run (its step and auto controls; the grid is not
\* resized and no cell is clicked).
\* runGeneration(promptInput, stepBtn or null), up to its await
runGenerationAuto(src, btn) ==
  /\ NoRunReady
  /\ stepBtn' = IF btn THEN [stepBtn EXCEPT !.disabled = TRUE] ELSE stepBtn
  /\ nextGeneration(MaxTasks)
  /\ runs' = Append(runs, Run(src, Len(steps) + 1, btn))
  /\ UNCHANGED <<isRunning, mobileBtn, autoInterval>>

\* runGeneration after its await; a rejected step leaves it at the await
runGenerationAutoResumes(r) ==
  /\ runs[r].pc = "awaiting"
  /\ steps[runs[r].step].status # "running"
  /\ stepBtn' = IF runs[r].btn /\ steps[runs[r].step].status = "done"
                THEN [stepBtn EXCEPT !.disabled = FALSE] ELSE stepBtn
  /\ runs' = [runs EXCEPT ![r].pc = IF steps[runs[r].step].status = "done"
                                    THEN "ended" ELSE "failed"]
  /\ UNCHANGED <<now, limiterVars, callers, engineVars, isRunning, mobileBtn,
                 autoInterval>>

\* the click handler of the auto button: it clears or sets the interval timer
AutoClick ==
  /\ micro = <<>>
  /\ NoRunReady
  /\ IF autoInterval # "null"
     THEN /\ autoInterval' = "null"
          /\ stepBtn' = [stepBtn EXCEPT !.disabled = FALSE]
     ELSE /\ autoInterval' = "interval"
          /\ stepBtn' = [stepBtn EXCEPT !.disabled = TRUE]
  /\ UNCHANGED <<now, limiterVars, callers, engineVars, isRunning, mobileBtn, runs>>

\* the callback of the interval timer, the click handler of the step button
\* and the keydown handler of Ctrl+Enter
IntervalTick == autoInterval # "null" /\ runGenerationAuto("interval", FALSE)
AutoStepClick == ~stepBtn.disabled /\ runGenerationAuto("stepBtn", TRUE)
AutoCtrlEnter == autoInterval = "null" /\ runGenerationAuto("keydown", TRUE)

NextAuto ==
  \/ AutoClick
  \/ IntervalTick
  \/ AutoStepClick
  \/ AutoCtrlEnter
  \/ \E r \in DOMAIN runs : runGenerationAutoResumes(r)
  \/ Microtask
  \/ NoRunReady /\ \E t \in DOMAIN tasks : KernelSettles(t)
  \/ NoRunReady /\ RecheckTimer
  \/ NoRunReady /\ Tick

SpecAuto == Init /\ [][NextAuto]_vars

(* ------------------- limiter-only specification ------------------------ *)
CallerStep(c) ==
  /\ lim' = c.lim
  /\ timers' = c.timers
  /\ grantLog' = grantLog \o c.log

CallAcquire(k) ==
  /\ callers[k] = "idle"
  /\ LET c == acquire(Ctx(lim, timers), k, now) IN
       /\ CallerStep(c)
       /\ callers' = [j \in DOMAIN callers |->
                        IF j \in Granted(c) THEN "holding"
                        ELSE IF j = k THEN "waiting" ELSE callers[j]]
  /\ UNCHANGED <<now, engineVars, uiVars>>

CallRelease(k) ==
  /\ callers[k] = "holding"
  /\ LET c == release(Ctx(lim, timers), now) IN
       /\ CallerStep(c)
       /\ callers' = [j \in DOMAIN callers |->
                        IF j \in Granted(c) THEN "holding"
                        ELSE IF j = k THEN "released" ELSE callers[j]]
  /\ UNCHANGED <<now, engineVars, uiVars>>

\* a setTimeout(() => this.processQueue(), wait) callback runs
LimiterTimer ==
  \E due \in BagToSet(timers) :
    /\ due <= now
    /\ LET c == processQueue(Ctx(lim, timers (-) SetToBag({due})), now) IN
         /\ CallerStep(c)
         /\ callers' = [j \in DOMAIN callers |->
                          IF j \in Granted(c) THEN "holding" ELSE callers[j]]
    /\ UNCHANGED <<now, engineVars, uiVars>>

NextLimiter ==
  \/ \E k \in 1..MaxCallers : CallAcquire(k)
  \/ \E k \in 1..MaxCallers : CallRelease(k)
  \/ LimiterTimer
  \/ Tick

\* the limiter alone, beside an idle engine with a 1x1 grid
SpecLimiter == InitOf(1) /\ [][NextLimiter]_vars

\* every granted operation is eventually released, the clock advances and
\* scheduled timers eventually fire
SpecLimiterFair ==
  /\ SpecLimiter
  /\ \A k \in 1..MaxCallers : WF_vars(CallRelease(k))
  /\ WF_vars(LimiterTimer)
  /\ WF_vars(Tick)

Holding == {k \in 1..MaxCallers : callers[k] = "holding"}

\* release() called once more by a caller that has already released: an
\* unmatched release
ReleaseAgain(k) ==
  /\ callers[k] = "released"
  /\ LET c == release(Ctx(lim, timers), now) IN
       /\ CallerStep(c)
       /\ callers' = [j \in DOMAIN callers |->
                        IF j \in Granted(c) THEN "holding"
                        ELSE IF j = k THEN "over" ELSE callers[j]]
  /\ UNCHANGED <<now, engineVars, uiVars>>

NextRelease ==
  \/ \E k \in 1..MaxCallers : CallAcquire(k)
  \/ \E k \in 1..MaxCallers : CallRelease(k)
  \/ \E k \in 1..MaxCallers : ReleaseAgain(k)
  \/ LimiterTimer
  \/ Tick

\* the limiter alone, with callers that may release twice
SpecRelease == InitOf(1) /\ [][NextRelease]_vars


(* --------------------------- Engine claims ----------------------------- *)
StepTasks(s) == steps[s].first..steps[s].last
Singles == {t \in DOMAIN tasks : tasks[t].kind = "single"}
StepCells == {t \in DOMAIN tasks : tasks[t].kind = "step"}

\* C4: a nextGeneration call made while a generation step is in progress is
\* rejected as a no-op: it starts no step.
C4_ReentryRejected ==
  [][(\E s \in DOMAIN steps : steps[s].status = "running")
       => Len(steps') = Len(steps)]_vars

\* C5: a single-cell update request for a coordinate is rejected while an
\* earlier request for the same coordinate has not resolved, so two accepted
\* requests for one coordinate are never unresolved together.
C5_SingleFlight ==
  \A i, j \in Singles :
    (i < j /\ tasks[i].cx = tasks[j].cx /\ tasks[i].cy = tasks[j].cy)
      => tasks[i].pc \notin Unresolved

\* C6: each coordinate has at most one collaborator call in flight.
C6_OneCallPerCell ==
  \A i, j \in DOMAIN tasks :
    (i # j /\ tasks[i].pc = "kernel" /\ tasks[j].pc = "kernel")
      => ~(tasks[i].cx = tasks[j].cx /\ tasks[i].cy = tasks[j].cy)

\* C7: no single-cell update is between its acceptance and its release()
\* while a full generation step has per-cell tasks that have not completed.
C7_NoSingleDuringStep ==
  ~ /\ \E t \in Singles : tasks[t].pc \in Unresolved
    /\ \E t \in StepCells : tasks[t].pc \in Unresolved

\* the texts of a cell and of its four wrap-around neighbors in grid g
TextsAround(g, cx, cy) ==
  LET R == Cardinality(DOMAIN g)
      C == Cardinality(DOMAIN g[0])
  IN [top     |-> g[IF cy = 0 THEN R - 1 ELSE cy - 1][cx],
      bottom  |-> g[IF cy = R - 1 THEN 0 ELSE cy + 1][cx],
      left    |-> g[cy][IF cx = 0 THEN C - 1 ELSE cx - 1],
      right   |-> g[cy][IF cx = C - 1 THEN 0 ELSE cx + 1],
      current |-> g[cy][cx]]

PassedTexts(t) ==
  [top |-> tasks[t].args.top, bottom |-> tasks[t].args.bottom,
   left |-> tasks[t].args.left, right |-> tasks[t].args.right,
   current |-> tasks[t].args.current]

\* C8: in a full step (without resize) the current-cell text and the four
\* neighbor texts passed to the collaborator are those the live grid held
\* when the step started.
C8_SnapshotIsolation ==
  \A t \in StepCells :
    tasks[t].pc = "kernel"
      => PassedTexts(t) = TextsAround(steps[tasks[t].step].start, tasks[t].cx, tasks[t].cy)

\* on a 2x2 grid a call is pending whose west neighbor has been rewritten by
\* the same step since the step started
C8_Witness ==
  /\ cols = 2 /\ rows = 2 /\ Len(steps) = 1
  /\ \E t \in StepCells :
       /\ tasks[t].pc = "kernel"
       /\ grid[tasks[t].cy][1 - tasks[t].cx] # tasks[t].args.left

\* C9: the neighbors resolved for cell (x, y) of a rows x cols grid are
\* north (x, y-1), south (x, y+1), west (x-1, y), east (x+1, y), each wrapped
\* around its axis, in a full step and in a single-cell update alike, and the
\* texts passed are those of these four cells.
C9_ToroidalNeighbors ==
  \A t \in DOMAIN tasks :
    tasks[t].pc = "kernel" =>
      LET x == tasks[t].cx
          y == tasks[t].cy
          n == tasks[t].nb
      IN /\ n.upY = (IF y = 0 THEN rows - 1 ELSE y - 1)
         /\ n.downY = (IF y = rows - 1 THEN 0 ELSE y + 1)
         /\ n.leftX = (IF x = 0 THEN cols - 1 ELSE x - 1)
         /\ n.rightX = (IF x = cols - 1 THEN 0 ELSE x + 1)
         /\ PassedTexts(t) = TextsAround(tasks[t].snap, x, y)

\* on a 3x3 grid, cell (0,0) has north (0,2), south (0,1), west (2,0), east (1,0)
C9_Witness ==
  /\ cols = 3 /\ rows = 3
  /\ \E t \in DOMAIN tasks :
       /\ tasks[t].pc = "kernel" /\ tasks[t].cx = 0 /\ tasks[t].cy = 0
       /\ tasks[t].nb = [upY |-> 2, downY |-> 1, leftX |-> 2, rightX |-> 1]

\* C10: when the collaborator failed for exactly one cell of a full step and
\* every task of the step has ended, the step has completed, the failed cell
\* holds the error indicator and every other cell the text returned for it.
C10_FaultContainment ==
  (/\ Len(steps) = 1
   /\ micro = <<>>
   /\ \A t \in StepTasks(1) : tasks[t].pc \notin Unresolved
   /\ Cardinality({t \in StepTasks(1) : tasks[t].out = KernelError}) = 1)
  => /\ steps[1].status = "done"
     /\ \A t \in StepTasks(1) :
          /\ tasks[t].pc = "done"
          /\ tasks[t].out \in Results \cup {KernelError}
          /\ grid[tasks[t].cy][tasks[t].cx] = tasks[t].out

\* a step over a 2x2 grid has completed with one failed cell
C10_Witness ==
  /\ cols = 2 /\ rows = 2 /\ Len(steps) = 1
  /\ steps[1].status = "done"
  /\ Cardinality({t \in StepTasks(1) : tasks[t].out = KernelError}) = 1
  /\ Cardinality({t \in StepTasks(1) : tasks[t].out \in Results}) = 3

\* C11: the promise returned by nextGeneration has not settled while a
\* per-cell task launched by that call has not completed, under any
\* interleaving, a resize during the step included.
C11_JoinBarrier ==
  \A s \in DOMAIN steps :
    steps[s].status # "running"
      => \A t \in StepTasks(s) : tasks[t].pc \notin Unresolved

\* C12: the promise of a started full generation step never rejects, however
\* many of its cells failed.
C12_StepNeverRejects ==
  \A s \in DOMAIN steps : steps[s].status # "rejected"

\* C13: resize(newSize) yields a newSize x newSize grid whose cell (x, y) holds
\* the old text at (x, y) when x < min(oldCols, newSize) and
\* y < min(oldRows, newSize), and the empty string otherwise.
C13_ResizePreserves ==
  [][resizes' # resizes =>
       /\ rows' = cols'
       /\ DOMAIN grid' = 0..(rows' - 1)
       /\ \A y \in 0..(rows' - 1) :
            /\ DOMAIN grid'[y] = 0..(cols' - 1)
            /\ \A x \in 0..(cols' - 1) :
                 grid'[y][x] = IF x < Min(cols, cols') /\ y < Min(rows, rows')
                               THEN grid[y][x] ELSE ""]_vars

\* a grid of 1 column and 2 rows, filled by a full step, was resized to 2x2:
\* the old column is kept and the new column is empty
C13_Witness ==
  /\ resizes = 1 /\ cols = 2 /\ rows = 2
  /\ Len(steps) = 1 /\ Len(tasks) = 2 /\ steps[1].last = 2
  /\ \A t \in 1..2 :
       /\ tasks[t].pc = "done" /\ tasks[t].cx = 0
       /\ grid[tasks[t].cy][0] = tasks[t].out
  /\ grid[0][1] = "" /\ grid[1][1] = ""

\* C14: a task that finishes for a coordinate outside the bounds of a grid
\* resized meanwhile has its write dropped: no exception escapes the task, and
\* once all tasks of its step have ended the step has completed and the
\* in-progress flag is cleared.
C14_LateWriteDropped ==
  /\ \A t \in DOMAIN tasks : tasks[t].pc # "rejected"
  /\ \A s \in DOMAIN steps :
       (micro = <<>> /\ \A t \in StepTasks(s) : tasks[t].pc \notin Unresolved)
         => steps[s].status = "done"
  /\ (micro = <<>> /\ \A t \in StepCells : tasks[t].pc \notin Unresolved)
       => ~generationInProgress

\* C15: a task of a full step that is admitted after a resize resolves its
\* neighbors by wrap-around in the dimensions of the step's snapshot, and
\* passes the texts the snapshot holds there; no read of the snapshot fails.
C15_SnapshotDimensions ==
  \A t \in StepCells :
    /\ tasks[t].out # TypeErrorMsg
    /\ tasks[t].pc = "kernel" =>
         LET x == tasks[t].cx
             y == tasks[t].cy
             n == tasks[t].nb
             R == Cardinality(DOMAIN tasks[t].snap)
             C == Cardinality(DOMAIN tasks[t].snap[0])
         IN /\ n.upY = (IF y = 0 THEN R - 1 ELSE y - 1)
            /\ n.downY = (IF y = R - 1 THEN 0 ELSE y + 1)
            /\ n.leftX = (IF x = 0 THEN C - 1 ELSE x - 1)
            /\ n.rightX = (IF x = C - 1 THEN 0 ELSE x + 1)
            /\ PassedTexts(t) = TextsAround(tasks[t].snap, x, y)

C17_ReleaseExactlyOnce ==
  /\ lim.active = Cardinality({t \in DOMAIN tasks : tasks[t].pc \in {"granted", "kernel"}})
  /\ loadingCells \subseteq
       {cellKey(tasks[t].cx, tasks[t].cy) : t \in {u \in DOMAIN tasks : tasks[u].pc = "kernel"}}

\* after a resize one task ended with a write that threw and another with a
\* failed call: no slot is held and no mark is left
C17_Witness ==
  /\ resizes = 1
  /\ \E t \in DOMAIN tasks : tasks[t].pc = "rejected"
  /\ \E t \in DOMAIN tasks : tasks[t].pc = "done" /\ tasks[t].out = KernelError
  /\ \A t \in DOMAIN tasks : tasks[t].pc \notin Unresolved
  /\ lim.active = 0
  /\ loadingCells = {}

\* C18: when the collaborator call of a cell fails, the failure's message is
\* written into the live grid at that cell, in a full step and in a
\* single-cell update, and no other cell changes (grid not resized).
C18_ErrorIndicatorWritten ==
  [][\A t \in DOMAIN tasks :
       (tasks[t].pc = "kernel" /\ tasks'[t].pc # "kernel" /\ tasks'[t].out = KernelError)
         => /\ grid'[tasks[t].cy][tasks[t].cx] = KernelError
            /\ \A y \in DOMAIN grid : \A x \in DOMAIN grid[y] :
                 (x # tasks[t].cx \/ y # tasks[t].cy) => grid'[y][x] = grid[y][x]]_vars

\* a cell filled by a full step holds the error indicator of a later failed
\* single-cell update, and another cell of that step holds a failed call's
\* indicator too
C18_Witness ==
  \E i \in StepCells, j \in Singles :
    /\ tasks[i].cx = tasks[j].cx /\ tasks[i].cy = tasks[j].cy
    /\ tasks[i].pc = "done" /\ tasks[i].out \in Results
    /\ tasks[j].pc = "done" /\ tasks[j].out = KernelError
    /\ grid[tasks[j].cy][tasks[j].cx] = KernelError
    /\ \E k \in StepCells :
         /\ tasks[k].pc = "done" /\ tasks[k].out = KernelError
         /\ grid[tasks[k].cy][tasks[k].cx] = KernelError

\* C22: the live grid has exactly `rows` rows and each row exactly `cols`
\* cells, in every reachable state.
C22_GridShape ==
  /\ DOMAIN grid = 0..(rows - 1)
  /\ \A y \in DOMAIN grid : DOMAIN grid[y] = 0..(cols - 1)

\* a 2x2 grid was resized to 1x1 and a task launched before the resize has
\* ended since, for a coordinate that is gone
C22_Witness ==
  /\ resizes = 1 /\ rows = 1 /\ cols = 1
  /\ \E t \in DOMAIN tasks :
       /\ tasks[t].pc = "rejected"
       /\ tasks[t].cx = 1 /\ tasks[t].cy = 1

C24_HungCallStallsOwnCell ==
  /\ \A t \in (1..MaxTasks) \ {HungTask} :
       (lim.maxConcurrent >= 2 /\ t \in DOMAIN tasks)
         ~> (t \in DOMAIN tasks /\ tasks[t].pc = "done"
               /\ grid[tasks[t].cy][tasks[t].cx] # "")
  /\ [](HungTask \in DOMAIN tasks /\ tasks[HungTask].pc \in Unresolved
          => steps[tasks[HungTask].step].status = "running")
  /\ [](lim.active = Cardinality({t \in DOMAIN tasks :
                                    tasks[t].pc \in {"granted", "kernel"}}))

\* the first call of a step over two cells is still pending and holds the
\* only slot in use, the other cell has its result, the step is running
C24_Witness ==
  /\ lim.maxConcurrent = 2
  /\ Len(steps) = 1 /\ Len(tasks) = 2
  /\ tasks[HungTask].pc = "kernel"
  /\ tasks[2].pc = "done"
  /\ lim.active = 1
  /\ steps[1].status = "running"

\* C25: once every collaborator call has settled and the continuations have
\* run, the step-in-progress flag is cleared and a single-cell update is
\* accepted again, whatever resize and failures happened meanwhile.
C25_FlagCleared ==
  (micro = <<>> /\ \A t \in DOMAIN tasks : tasks[t].pc \notin Unresolved)
    => /\ ~generationInProgress
       /\ SingleAccepted(0, 0)

\* C26: in a full step the collaborator is called exactly once for every
\* coordinate the grid had at step start: the step has one task per
\* coordinate, every task that has ended has made its call (its outcome is the
\* call's result or failure), a call begins only from the task's admission, a
\* pending call ends in the task's end, and an ended task does nothing more.
C26_OneCallNoRetry ==
  /\ [](\A s \in DOMAIN steps :
          /\ Cardinality({cellKey(tasks[t].cx, tasks[t].cy) : t \in StepTasks(s)})
               = Cardinality(StepTasks(s))
          /\ \A t \in StepTasks(s) :
               tasks[t].pc \notin Unresolved
                 => tasks[t].out \in Results \cup {KernelError})
  /\ [][\A t \in DOMAIN tasks :
          /\ (tasks'[t].pc = "kernel" /\ tasks[t].pc # "kernel") => tasks[t].pc = "granted"
          /\ tasks[t].pc = "kernel" => tasks'[t].pc \in {"kernel", "done", "rejected"}
          /\ tasks[t].pc \in {"done", "rejected"} => tasks'[t] = tasks[t]]_vars

\* C27: the step-in-progress flag changes only when a full step starts or
\* joins, never by a single-cell update; a request for a coordinate of the
\* grid that is not marked is accepted when no step is in progress, whatever
\* other single-cell updates are in flight; and the single-cell updates
\* holding an admission slot are never more than the limit K.
C27_SinglesRunTogether ==
  /\ [][generationInProgress' # generationInProgress
          => \/ Len(steps') > Len(steps)
             \/ \E s \in DOMAIN steps :
                  steps[s].status = "running" /\ steps'[s].status = "done"]_vars
  /\ [](\A cx \in 0..(cols - 1), cy \in 0..(rows - 1) :
          (~generationInProgress /\ cellKey(cx, cy) \notin loadingCells)
            => SingleAccepted(cx, cy))
  /\ [](Cardinality({t \in Singles : tasks[t].pc \in {"granted", "kernel"}})
          <= lim.maxConcurrent)

\* two single-cell updates for distinct coordinates have their calls pending
\* together, and the flag is clear
C27_Witness ==
  /\ ~generationInProgress
  /\ \E i, j \in Singles :
       /\ cellKey(tasks[i].cx, tasks[i].cy) # cellKey(tasks[j].cx, tasks[j].cy)
       /\ tasks[i].pc = "kernel" /\ tasks[j].pc = "kernel"
  /\ lim.active = 2

\* C28: the in-flight set and the active count change together: a task
\* that was granted admission and is not yet marked is seen by no other code
\* (the next code to run is its own continuation, which sets the mark), a
\* task holding its slot with its call pending has its coordinate marked, and
\* every mark belongs to such a task.
C28_GrantAndMarkAtomic ==
  /\ \A t \in DOMAIN tasks :
       tasks[t].pc = "granted"
         => micro # <<>> /\ Head(micro) = [type |-> "resume", id |-> t]
  /\ \A t \in DOMAIN tasks :
       tasks[t].pc = "kernel" => cellKey(tasks[t].cx, tasks[t].cy) \in loadingCells
  /\ loadingCells \subseteq
       {cellKey(tasks[t].cx, tasks[t].cy) : t \in {u \in DOMAIN tasks : tasks[u].pc = "kernel"}}

\* C30: during a full step running alone, the live grid holds the returned
\* text at every cell whose call has returned and the step-start text at every
\* cell whose task has not ended, and the step has not completed while a
\* task is pending.
C30_IncrementalProgress ==
  (Len(steps) = 1 /\ ~steps[1].settled) =>
    /\ steps[1].status = "running"
    /\ \A t \in StepTasks(1) :
         /\ tasks[t].pc = "done" => grid[tasks[t].cy][tasks[t].cx] = tasks[t].out
         /\ tasks[t].pc \in Unresolved
              => grid[tasks[t].cy][tasks[t].cx] = steps[1].start[tasks[t].cy][tasks[t].cx]

\* in a step over a 2x2 grid two cells show their returned text while the
\* calls of the two others are pending
C30_Witness ==
  /\ cols = 2 /\ rows = 2 /\ Len(steps) = 1
  /\ steps[1].status = "running"
  /\ Cardinality({t \in StepTasks(1) :
                    /\ tasks[t].pc = "done" /\ tasks[t].out \in Results
                    /\ grid[tasks[t].cy][tasks[t].cx] = tasks[t].out}) = 2
  /\ Cardinality({t \in StepTasks(1) :
                    /\ tasks[t].pc = "kernel"
                    /\ grid[tasks[t].cy][tasks[t].cx] = ""}) = 2

\* C31: a per-cell task writes only the live-grid cell at its own coordinate:
\* in a step that is not a resize, a cell of the live grid changes only if a
\* task for that coordinate ends in it, whether its call succeeded or failed.
C31_WritesOwnCellOnly ==
  [][resizes' = resizes =>
       \A y \in DOMAIN grid : \A x \in DOMAIN grid[y] :
         grid'[y][x] # grid[y][x] =>
           \E t \in DOMAIN tasks :
             /\ tasks[t].pc \in Unresolved /\ tasks'[t].pc \notin Unresolved
             /\ tasks[t].cx = x /\ tasks[t].cy = y]_vars

\* a single-cell update has failed and a task of a full step has succeeded, for
\* two cells of one row, and each cell holds its own task's text
C31_Witness ==
  \E i \in StepCells, j \in Singles :
    /\ tasks[i].cy = tasks[j].cy /\ tasks[i].cx # tasks[j].cx
    /\ tasks[i].pc = "done" /\ tasks[i].out \in Results
    /\ tasks[j].pc = "done" /\ tasks[j].out = KernelError
    /\ tasks[i].cy \in DOMAIN grid
    /\ {tasks[i].cx, tasks[j].cx} \subseteq DOMAIN grid[tasks[i].cy]
    /\ grid[tasks[i].cy][tasks[i].cx] = tasks[i].out
    /\ grid[tasks[j].cy][tasks[j].cx] = KernelError

C33_SingleReadsRequestSnapshot ==
  /\ [](\A t \in Singles :
          tasks[t].pc = "kernel"
            => PassedTexts(t) = TextsAround(tasks[t].snap, tasks[t].cx, tasks[t].cy))
  /\ [][\A t \in DOMAIN tasks' :
          tasks'[t].kind = "single" =>
            /\ t \notin DOMAIN tasks => tasks'[t].snap = grid
            /\ (t \in DOMAIN tasks /\ tasks[t].pc \in Unresolved
                  /\ tasks'[t].pc \in Unresolved) => tasks'[t].snap = tasks[t].snap]_vars

\* with single-cell updates alone on a grid never resized, a call is pending
\* that was passed the empty text for its west neighbor, which another
\* single-cell update has rewritten since the request
C33_Witness ==
  /\ resizes = 0 /\ StepCells = {} /\ cols = 2
  /\ \E t, u \in Singles :
       /\ tasks[t].pc = "kernel" /\ tasks[u].pc = "done"
       /\ tasks[u].cy = tasks[t].cy /\ tasks[u].cx = 1 - tasks[t].cx
       /\ tasks[t].args.left = ""
       /\ grid[tasks[t].cy][tasks[u].cx] # ""

\* C35: the limiter's active count is the number of per-cell tasks that were
\* granted admission and have not called release(), and the coordinates in
\* the in-flight set are at most that many, hence at most K.
C35_ActiveCountsAdmitted ==
  /\ lim.active = Cardinality({t \in DOMAIN tasks : tasks[t].pc \in {"granted", "kernel"}})
  /\ Cardinality(loadingCells) <= lim.active
  /\ lim.active <= lim.maxConcurrent

\* two admitted tasks have their calls pending for one coordinate: the active
\* count is 2 and one coordinate is marked
C35_Witness ==
  /\ lim.active = 2
  /\ Cardinality(loadingCells) = 1
  /\ Cardinality({t \in DOMAIN tasks : tasks[t].pc = "kernel"}) = 2

\* C36: once every started full step and every single-cell update has
\* completed (the promise of each call has settled, every task has ended and
\* no continuation is left to run), the limiter's active count is 0, its queue
\* is empty, the in-flight set is empty and the step-in-progress flag is false.
C36_QuiescentWhenDone ==
  (/\ micro = <<>>
   /\ \A s \in DOMAIN steps : steps[s].status # "running"
   /\ \A t \in DOMAIN tasks : tasks[t].pc \notin Unresolved)
  => /\ lim.active = 0
     /\ lim.queue = <<>>
     /\ loadingCells = {}
     /\ ~generationInProgress

\* C38: the tasks of a full step are admitted in the order of their launch,
\* which is the shuffled order: when a step starts all its tasks have called
\* acquire() and none has been resumed, and a task is never admitted while a
\* task of the step launched before it still waits.
C38_AdmissionInLaunchOrder ==
  /\ [](\A s \in DOMAIN steps : \A t, u \in StepTasks(s) :
          (t < u /\ tasks[u].pc # "acquire") => tasks[t].pc # "acquire")
  /\ [][Len(steps') > Len(steps) =>
          \A t \in (Len(tasks) + 1)..Len(tasks') :
            tasks'[t].pc \in {"acquire", "granted"}]_vars

\* of a step over a 2x2 grid launched in the order (1,1), (1,0), ... the first
\* two tasks have been admitted and the last two wait
C38_Witness ==
  /\ cols = 2 /\ rows = 2 /\ Len(steps) = 1 /\ Len(tasks) = 4
  /\ <<tasks[1].cx, tasks[1].cy>> = <<1, 1>>
  /\ <<tasks[2].cx, tasks[2].cy>> = <<1, 0>>
  /\ tasks[1].pc = "done" /\ tasks[2].pc = "kernel"
  /\ tasks[3].pc = "acquire" /\ tasks[4].pc = "acquire"

\* the grid a synchronous update of every cell of g computes with the pure
\* collaborator, each cell from the texts of g
SyncStep(g) ==
  [y \in DOMAIN g |-> [x \in DOMAIN g[y] |-> pureKernel(TextsAround(g, x, y))]]

\* C37: for a full step running alone (no resize, no single-cell update
\* during it) with a collaborator whose outcome depends only on its
\* arguments, when the last task of the step ends the live grid is the grid
\* a synchronous update from the step-start grid computes, whatever the
\* shuffle, the order of admission and the order of completion, and it stays
\* so until the step completes.
C37_EqualsSynchronousStep ==
  [][\A s \in DOMAIN steps :
       /\ (~steps[s].settled /\ steps'[s].settled)
            => grid' = SyncStep(steps[s].start)
       /\ (steps[s].settled /\ steps[s].status = "running")
            => (grid' = grid /\ steps'[s].status = "done")]_vars

\* cell (0,0) of a 2x2 grid was filled by a single-cell update and a full step
\* has then completed: (0,0) holds the error indicator, its east neighbor "b",
\* the two cells of the other row "a"
C37_Witness ==
  /\ cols = 2 /\ rows = 2 /\ Len(tasks) = 5 /\ Len(steps) = 1
  /\ tasks[1].kind = "single" /\ tasks[1].out = "a"
  /\ steps[1].status = "done"
  /\ grid[0][0] = KernelError /\ grid[0][1] = "b"
  /\ grid[1][0] = "a" /\ grid[1][1] = "a"

(* --------------------------- driver claims ----------------------------- *)
Awaiting == {r \in DOMAIN runs : runs[r].pc = "awaiting"}

\* C39: in the driver with the isRunning guard an engine step is started only
\* while no earlier runGeneration call is unfinished, whatever triggers it;
\* isRunning is true and both buttons are disabled exactly while a call is
\* unfinished; and when a call finishes, its step completed or rejected,
\* isRunning is false and both buttons are enabled.
C39_RunGuard ==
  /\ [](/\ Cardinality(Awaiting) <= 1
        /\ isRunning <=> Awaiting # {}
        /\ stepBtn.disabled <=> isRunning
        /\ mobileBtn.disabled <=> isRunning)
  /\ [][Len(steps') > Len(steps) =>
          /\ Awaiting = {} /\ ~isRunning
          /\ Len(runs') = Len(runs) + 1
          /\ runs'[Len(runs')].step = Len(steps')]_vars
  /\ [][\A r \in Awaiting :
          runs'[r].pc # "awaiting"
            => ~isRunning' /\ ~stepBtn'.disabled /\ ~mobileBtn'.disabled]_vars

\* a run started by the step button ended at a rejected step, and a run
\* started by Ctrl+Enter is under way
C39_Witness ==
  /\ Len(runs) = 2
  /\ runs[1].pc = "failed" /\ runs[1].src = "stepBtn"
  /\ runs[2].pc = "awaiting" /\ runs[2].src = "keydown"
  /\ isRunning

\* C40: in the driver with auto-run the interval timer starts no engine step
\* while a step started by an earlier tick is in progress.
C40_AutoRunNoOverlap ==
  [][\A r \in DOMAIN runs' :
       (r \notin DOMAIN runs /\ runs'[r].src = "interval")
         => \A q \in DOMAIN runs :
              runs[q].src = "interval" => steps[runs[q].step].status # "running"]_vars

(* ------------------------- RateLimiter claims -------------------------- *)
\* C1: the number of operations granted admission and not yet released never
\* exceeds the limiter's concurrency limit K, and the limiter's own count of
\* them is exact.
C1_ConcurrencyBound ==
  /\ Cardinality(Holding) <= lim.maxConcurrent
  /\ lim.active = Cardinality(Holding)

\* the limit is reached while another caller waits
C1_Witness ==
  /\ Cardinality(Holding) = lim.maxConcurrent
  /\ lim.maxConcurrent = 2
  /\ \E k \in 1..MaxCallers : callers[k] = "waiting"

\* C2: the clock values recorded at two consecutive grants differ by at least
\* minInterval.
C2_StartSpacing ==
  \A i \in 1..(Len(grantLog) - 1) :
    grantLog[i + 1] - grantLog[i] >= lim.minInterval

\* a second grant was made by a re-check timer while two timers were pending
C2_Witness ==
  /\ Len(grantLog) >= 3
  /\ lim.minInterval > 0
  /\ BagCardinality(timers) >= 2

\* C3: every acquire() call is eventually granted, provided every granted
\* operation is eventually released, the clock advances and timers fire.
C3_EventuallyGranted ==
  \A k \in 1..MaxCallers :
    (callers[k] = "waiting") ~> (callers[k] \in {"holding", "released"})

\* a caller that had to wait (full capacity and interval not elapsed) is granted
C3_Witness ==
  /\ lim.maxConcurrent = 1
  /\ lim.minInterval > 0
  /\ callers = <<"released", "released", "holding">>

\* C19: the constructor clamps its parameters: the limit is max(1, maxConcurrent)
\* and the interval max(0, minIntervalMs), so a limiter built with a limit
\* below 1 is the limiter built with 1 and one built with a negative interval
\* is the one built with 0.
C19_ConstructorClamps ==
  /\ lim.maxConcurrent >= 1
  /\ lim.minInterval >= 0
  /\ \A mc \in -1..MaxConcurrentArg, mi \in -1..MaxInterval :
       /\ RateLimiterNew(mc, mi).maxConcurrent = (IF mc < 1 THEN 1 ELSE mc)
       /\ RateLimiterNew(mc, mi).minInterval = (IF mi < 0 THEN 0 ELSE mi)
       /\ mc < 1 => RateLimiterNew(mc, mi) = RateLimiterNew(1, mi)
       /\ mi < 0 => RateLimiterNew(mc, mi) = RateLimiterNew(mc, 0)

\* the limiter built with (0, -1) admits one caller at a time and spaces
\* nothing: two grants at the same clock value, the third caller waiting
C19_Witness ==
  /\ lim = [RateLimiterNew(0, -1) EXCEPT !.active = 1, !.lastStart = now, !.queue = <<3>>]
  /\ Len(grantLog) = 2
  /\ grantLog[1] = grantLog[2]

\* C20: release() lowers the active count by one when it is positive and
\* leaves it at zero otherwise, so the count is never negative, and then
\* re-evaluates the queue: it grants waiters (each grant counts one up) and,
\* if a waiter remains while capacity is free, a re-check is scheduled.
C20_ReleaseDecrement ==
  [][LET grants == Len(grantLog') - Len(grantLog)
         released == \E k \in 1..MaxCallers :
                       \/ callers[k] = "holding" /\ callers'[k] = "released"
                       \/ callers[k] = "released" /\ callers'[k] = "over"
     IN /\ lim'.active >= 0
        /\ released =>
             /\ lim'.active - grants = (IF lim.active > 0 THEN lim.active - 1 ELSE 0)
             /\ (Len(lim'.queue) > 0 /\ lim'.active < lim'.maxConcurrent)
                  => \E due \in BagToSet(timers') : due > now]_vars

\* three callers were granted and six releases were made: at least three of
\* them found the count at zero
C20_Witness ==
  /\ callers = <<"over", "over", "over">>
  /\ lim.active = 0
  /\ Len(grantLog) = 3

\* C21: the interval runs from the last granted start: a step without a grant
\* (a release among them) leaves lastStart as it is, a grant is made only
\* when minInterval has elapsed since the last start, and a release that
\* frees capacity before that grants nobody.
C21_IntervalFromLastStart ==
  [][LET grants == Len(grantLog') - Len(grantLog)
         released == \E k \in 1..MaxCallers :
                       callers[k] = "holding" /\ callers'[k] = "released"
     IN /\ grants = 0 => lim'.lastStart = lim.lastStart
        /\ grants > 0 => now - lim.lastStart >= lim.minInterval
        /\ (released /\ now - lim.lastStart < lim.minInterval) =>
             /\ grants = 0
             /\ \A k \in 1..MaxCallers :
                  callers[k] = "waiting" => callers'[k] = "waiting"]_vars

\* a release has freed capacity before the interval since the last grant
\* elapsed: a caller waits although the limiter is below its limit
C21_Witness ==
  /\ lim.active < lim.maxConcurrent
  /\ now - lim.lastStart < lim.minInterval
  /\ \E k \in 1..MaxCallers : callers[k] = "released"
  /\ \E k \in 1..MaxCallers : callers[k] = "waiting"

\* a step of the limiter-only specification in which a re-check timer fired:
\* the clock stands, nobody called acquire() and nobody released
TimerFired ==
  /\ now' = now
  /\ timers' # timers
  /\ \A k \in 1..MaxCallers :
       /\ ~(callers[k] = "idle" /\ callers'[k] # "idle")
       /\ ~(callers[k] = "holding" /\ callers'[k] = "released")

\* C29: while a waiter is queued, capacity is free and the interval since the
\* last grant has not elapsed, a re-check timer is pending that is due when
\* the interval elapses; and a re-check that runs with a waiter queued,
\* capacity free and the interval elapsed grants the head waiter.
C29_RecheckScheduled ==
  /\ []((Len(lim.queue) > 0 /\ lim.active < lim.maxConcurrent
          /\ now - lim.lastStart < lim.minInterval)
         => \E due \in BagToSet(timers) : due = lim.lastStart + lim.minInterval)
  /\ [][(TimerFired /\ Len(lim.queue) > 0 /\ lim.active < lim.maxConcurrent
          /\ now - lim.lastStart >= lim.minInterval)
         => callers'[Head(lim.queue)] = "holding"]_vars

\* two callers wait with capacity free (limit 2, one active) inside the
\* interval, and the re-check is pending
C29_Witness ==
  /\ lim.maxConcurrent = 2 /\ lim.active = 1
  /\ Len(lim.queue) = 2
  /\ now - lim.lastStart < lim.minInterval
  /\ timers # EmptyBag

\* the waiters queued ahead of waiter k
QueueBefore(k) ==
  {lim.queue[i] : i \in {j \in 1..Len(lim.queue) :
                           \E m \in (j + 1)..Len(lim.queue) : lim.queue[m] = k}}

\* C34: with a clock that never goes back the limiter grants in the order of
\* the acquire() calls: the queue holds each waiting caller once, a waiter is
\* granted only together with all waiters queued ahead of it, a new caller
\* only if no waiter is left behind, the queue only loses waiters at its head
\* and gains the new caller at its tail, and an attempt taken from the head
\* of the queue (at the clock value processQueue read, or a later one) is
\* granted: its re-queue branch is not taken.
C34_StrictFifo ==
  /\ [](/\ \A i, j \in 1..Len(lim.queue) : i # j => lim.queue[i] # lim.queue[j]
        /\ {lim.queue[i] : i \in 1..Len(lim.queue)}
             = {k \in 1..MaxCallers : callers[k] = "waiting"})
  /\ []((Len(lim.queue) > 0 /\ lim.active < lim.maxConcurrent
          /\ now - lim.lastStart >= lim.minInterval)
         => \A t \in now..(now + 1) :
              attempt(Ctx([lim EXCEPT !.queue = Tail(@)], timers),
                      Head(lim.queue), t).granted = <<Head(lim.queue)>>)
  /\ [][/\ \A k \in 1..MaxCallers :
            (callers[k] = "waiting" /\ callers'[k] = "holding")
              => \A j \in QueueBefore(k) : callers'[j] = "holding"
        /\ \A k \in 1..MaxCallers :
            (callers[k] = "idle" /\ callers'[k] = "holding")
              => \A i \in 1..Len(lim.queue) : callers'[lim.queue[i]] = "holding"
        /\ \E n \in 0..Len(lim.queue) :
             \E tail \in {<<>>} \cup {<<k>> : k \in {j \in 1..MaxCallers : callers[j] = "idle"}} :
               lim'.queue = SubSeq(lim.queue, n + 1, Len(lim.queue)) \o tail]_vars

\* the caller queued first was granted by a re-check while the caller queued
\* behind it still waits
C34_Witness ==
  /\ lim.minInterval > 0 /\ lim.maxConcurrent = 2
  /\ Len(grantLog) = 2 /\ grantLog[2] > grantLog[1]
  /\ Len(lim.queue) = 1
  /\ Cardinality(Holding) = 2
====
